---------------------------- MODULE Spec2Model ----------------------------
(***************************************************************************)
(* A state-machine model of morning-lights-off (src/src/main.rs): one run  *)
(* of main, from reading the environment to the process exit, with the     *)
(* background task that drives the database connection.                    *)
(*                                                                         *)
(* Time follows chrono's representation: an instant or a duration is a     *)
(* pair of whole seconds and nanoseconds (0 .. 10^9 - 1); a DateTime also  *)
(* carries the UTC offset of its time zone.                                *)
(***************************************************************************)
EXTENDS Integers, Sequences, FiniteSets, TLC

(***************************************************************************)
(* Bounds of the model.                                                    *)
(***************************************************************************)
\* the machine table holds at most this many rows
MaxLights == 2
\* the sunrise instant lies within this many seconds of now + 30 minutes
MaxSkew == 2

(***************************************************************************)
(* The world outside the process.                                          *)
(***************************************************************************)
EnvVars == {"DB_HOST", "DB_USER", "DB_PASSWORD", "DB_NAME", "NETWORK_ID", "LAT", "LNG"}

DbVars == {"DB_HOST", "DB_USER", "DB_PASSWORD", "DB_NAME"}

FullEnv ==
    [v \in EnvVars |->
        CASE v = "DB_HOST" -> "db.local"
          [] v = "DB_USER" -> "lights"
          [] v = "DB_PASSWORD" -> "secret"
          [] v = "DB_NAME" -> "home"
          [] v = "NETWORK_ID" -> "192.168.1"
          [] v = "LAT" -> "41.9"
          [] v = "LNG" -> "-87.6"]

\* str::parse::<f64> on the values the environments below can hold
ParsesAsF64(s) == s \in {"41.9", "-87.6"}

\* the environments of a run: complete, one variable absent, or LAT / LNG
\* holding text that is no number
Environments ==
    {FullEnv}
      \cup {[v \in EnvVars \ {gone} |-> FullEnv[v]] : gone \in EnvVars}
      \cup {[FullEnv EXCEPT ![bad] = "north"] : bad \in {"LAT", "LNG"}}

\* rows of table machine (host_id, name); "lamp" is a host_id that yields
\* no socket address
MachineRows ==
    { [host_id |-> "10", name |-> "Bedroom"],
      [host_id |-> "20", name |-> "Kitchen"],
      [host_id |-> "lamp", name |-> "Porch"] }

RECURSIVE SeqsUpTo(_, _)
SeqsUpTo(S, n) ==
    IF n = 0 THEN {<<>>}
    ELSE LET shorter == SeqsUpTo(S, n - 1)
         IN  shorter \cup {Append(s, x) : s \in shorter, x \in S}

Range(s) == {s[k] : k \in 1..Len(s)}

\* the contents of table machine: distinct rows, in the order the query
\* yields them
MachineTables ==
    {t \in SeqsUpTo(MachineRows, MaxLights) : Cardinality(Range(t)) = Len(t)}

\* SocketAddr::from_str on the addresses the rows above derive
ParsesAsSocketAddr(addr) == addr \in {"192.168.1.10:38899", "192.168.1.20:38899"}

NANOS_PER_SEC == 10^9

\* the UTC offsets (seconds) of the zone Local can be
LocalOffsets == {0, -18000}

\* the clock reading of Local::now(): an epoch second that keeps every
\* instant of the model positive, and a sub-second part
NowSecs == 10 * 3600
NowNanos == {0, 1, NANOS_PER_SEC - 1}
SunriseNanos == {0, NANOS_PER_SEC \div 2}

(***************************************************************************)
(* The state of a run.                                                     *)
(***************************************************************************)
VARIABLES
    env,            \* the process environment
    machine,        \* table machine
    local_offset,   \* the UTC offset of time zone Local
    pc,             \* position of main
    status,         \* "running", "exit0", "exit1" (main returned Err), "panic"
    conn,           \* the database connection: "none", "open", "broken"
    wiz_lights,     \* Vec<WizLight> of main
    queries,        \* number of SELECTs issued against table machine
    sunrise_result, \* outcome of fetch_sunrise_time
    sunrise_utc,
    now,            \* the reading of Local::now() at line 74
    duration_to_sleep,
    sleeping,       \* the sleep of line 84: [state, arg]
    i,              \* number of lights the for loop has taken
    call,           \* arguments of the pending log_light_event call
    inflight,       \* the awaited operations (insert, udp) not yet returned
    sent,           \* the send_udp_packet calls that returned, in order
    log,            \* table log
    log_failed,     \* an INSERT has failed
    effects         \* the external effects so far, in order: each attempt
                    \* ("connect", "query", "http", "insert", "sleep", "udp")
                    \* and each row the log table took ("row")

vars == <<env, machine, local_offset, pc, status, conn, wiz_lights, queries,
          sunrise_result, sunrise_utc, now, duration_to_sleep, sleeping, i,
          call, inflight, sent, log, log_failed, effects>>

NoTime == [secs |-> 0, nanos |-> 0, offset |-> 0]
NoDuration == [secs |-> 0, nanos |-> 0]
NoCall == [severity |-> "", message |-> <<>>, machine |-> ""]

Init ==
    /\ env \in Environments
    /\ machine \in MachineTables
    /\ local_offset \in LocalOffsets
    /\ pc = "env"
    /\ status = "running"
    /\ conn = "none"
    /\ wiz_lights = <<>>
    /\ queries = 0
    /\ sunrise_result = "none"
    /\ sunrise_utc = NoTime
    /\ now = NoTime
    /\ duration_to_sleep = NoDuration
    /\ sleeping = [state |-> "none", arg |-> [wraps |-> 0, low |-> 0]]
    /\ i = 0
    /\ call = NoCall
    /\ inflight = {}
    /\ sent = <<>>
    /\ log = <<>>
    /\ log_failed = FALSE
    /\ effects = <<>>


(***************************************************************************)
(* chrono: instants, durations, their arithmetic and formatting.           *)
(***************************************************************************)
\* DateTime::with_timezone: the same instant, seen in another zone
WithTimezone(dt, offset) == [dt EXCEPT !.offset = offset]

\* chrono::Duration::minutes
Minutes(m) == [secs |-> m * 60, nanos |-> 0]

SUNRISE_LEAD_MINUTES == 30

\* DateTime - Duration: the zone is kept, the nanoseconds borrow a second
DateTimeMinus(dt, d) ==
    IF dt.nanos >= d.nanos
    THEN [dt EXCEPT !.secs = dt.secs - d.secs, !.nanos = dt.nanos - d.nanos]
    ELSE [dt EXCEPT !.secs = dt.secs - d.secs - 1,
                    !.nanos = dt.nanos + NANOS_PER_SEC - d.nanos]

\* DateTime - DateTime: the signed duration between the two instants,
\* whatever their zones; secs may be negative, nanos never is
DurationSince(a, b) ==
    IF a.nanos >= b.nanos
    THEN [secs |-> a.secs - b.secs, nanos |-> a.nanos - b.nanos]
    ELSE [secs |-> a.secs - b.secs - 1, nanos |-> a.nanos + NANOS_PER_SEC - b.nanos]

\* Duration::num_seconds: whole seconds, the fraction dropped toward zero
NumSeconds(d) == IF d.secs < 0 /\ d.nanos > 0 THEN d.secs + 1 ELSE d.secs

\* i64 as u64: a negative value wraps to 2^64 + value
\* (the result is wraps * 2^64 + low)
AsU64(n) == IF n >= 0 THEN [wraps |-> 0, low |-> n] ELSE [wraps |-> 1, low |-> n]

\* format("%Y-%m-%d %H:%M:%S"): the wall-clock second in the DateTime's zone
FormatYmdHms(dt) == dt.secs + dt.offset

\* target_time of line 71 (faulty variant: the lead added instead of subtracted)
TargetTimeLate(sunrise_local) ==
    [sunrise_local EXCEPT !.secs = sunrise_local.secs + Minutes(SUNRISE_LEAD_MINUTES).secs]

TargetTime(sunrise_local) == DateTimeMinus(sunrise_local, Minutes(SUNRISE_LEAD_MINUTES))

\* the test of line 75 (faulty variant: any non-zero wait sleeps)
ShouldSleepNonZero(d) == NumSeconds(d) # 0

ShouldSleep(d) == NumSeconds(d) > 0

(***************************************************************************)
(* Helpers of the handlers.                                                *)
(***************************************************************************)
\* fetch_wiz_lights, lines 127-135: one WizLight per row, in row order
BuildWizLights(rows, network_id) ==
    [k \in 1..Len(rows) |->
        [host_id |-> network_id \o "." \o rows[k].host_id \o ":38899",
         name |-> rows[k].name]]

\* send_udp_packet: bind, then parse the address, then send_to
SendResult(addr, bind_ok, send_ok) ==
    IF ~bind_ok THEN "Err:bind"
    ELSE IF ~ParsesAsSocketAddr(addr) THEN "Err:parse"
    ELSE IF ~send_ok THEN "Err:send"
    ELSE "Ok"

\* the arms of the match of lines 97-114 (faulty variant: every row is an Info row)
LogArgsAlwaysInfo(light, result) ==
    [severity |-> "Info",
     message |-> <<"turned off", light.name, light.host_id>>,
     machine |-> light.name]

LogArgs(light, result) ==
    IF result = "Ok"
    THEN [severity |-> "Info",
          message |-> <<"turned off", light.name, light.host_id>>,
          machine |-> light.name]
    ELSE [severity |-> "Error",
          message |-> <<"failed to turn off", light.name, light.host_id, result>>,
          machine |-> light.name]

\* where main goes with the result of a send (faulty variant: an error is printed
\* and not logged)
AfterSendErrorNotLogged(result) == IF result = "Ok" THEN "log_light" ELSE "loop"

AfterSend(result) == "log_light"

LogSites == {"log_sleep", "log_now", "log_light"}

\* where main continues when log_light_event returns Ok
AfterLog(site) ==
    CASE site = "log_sleep" -> "sleep"
      [] site = "log_now" -> "loop"
      [] site = "log_light" -> "loop"

\* log_light_event, lines 176-182: the row of the INSERT
LogRow(c) ==
    [severity |-> c.severity, message |-> c.message, machine |-> c.machine,
     event_type |-> "Morning"]

\* the process ends: main returns Ok (exit0), main returns Err (exit1), or
\* an expect panics (panic)
Ends(how) == /\ status' = how
             /\ pc' = "done"

(***************************************************************************)
(* The steps of main.                                                      *)
(***************************************************************************)
\* lines 47-56: the four DB_* variables, each with expect
LoadDbEnv ==
    /\ pc = "env"
    /\ IF DbVars \subseteq DOMAIN env
       THEN pc' = "connect" /\ UNCHANGED status
       ELSE Ends("panic")
    /\ UNCHANGED <<env, machine, local_offset, conn, wiz_lights, queries,
                   sunrise_result, sunrise_utc, now, duration_to_sleep, sleeping,
                   i, call, inflight, sent, log, log_failed, effects>>

\* lines 57-64: connect, then spawn the task that drives the connection
Connect ==
    /\ pc = "connect"
    /\ effects' = Append(effects, "connect")
    /\ \E ok \in BOOLEAN :
          IF ok
          THEN conn' = "open" /\ pc' = "lights" /\ UNCHANGED status
          ELSE Ends("exit1") /\ UNCHANGED conn
    /\ UNCHANGED <<env, machine, local_offset, wiz_lights, queries,
                   sunrise_result, sunrise_utc, now, duration_to_sleep, sleeping,
                   i, call, inflight, sent, log, log_failed>>

\* lines 60-64: the spawned task ends with a connection error; from then on
\* every request on the client fails
ConnectionError ==
    /\ status = "running"
    /\ conn = "open"
    /\ conn' = "broken"
    /\ UNCHANGED <<env, machine, local_offset, pc, status, wiz_lights, queries,
                   sunrise_result, sunrise_utc, now, duration_to_sleep, sleeping,
                   i, call, inflight, sent, log, log_failed, effects>>

\* line 66 and fetch_wiz_lights: the SELECT, then NETWORK_ID with expect,
\* then the list
FetchWizLights ==
    /\ pc = "lights"
    /\ effects' = Append(effects, "query")
    /\ queries' = queries + 1
    /\ \E ok \in BOOLEAN :
          IF ~(ok /\ conn = "open")
          THEN Ends("exit1") /\ UNCHANGED wiz_lights
          ELSE IF "NETWORK_ID" \notin DOMAIN env
          THEN Ends("panic") /\ UNCHANGED wiz_lights
          ELSE /\ wiz_lights' = BuildWizLights(machine, env["NETWORK_ID"])
               /\ pc' = "sunrise"
               /\ UNCHANGED status
    /\ UNCHANGED <<env, machine, local_offset, conn,
                   sunrise_result, sunrise_utc, now, duration_to_sleep, sleeping,
                   i, call, inflight, sent, log, log_failed>>

\* the instants the API may answer with
SunriseInstants ==
    {[secs |-> NowSecs + Minutes(SUNRISE_LEAD_MINUTES).secs + k, nanos |-> n, offset |-> 0] :
        k \in (-MaxSkew)..MaxSkew, n \in SunriseNanos}

\* LAT and LNG of fetch_sunrise_time, lines 141-148
LatLngOk ==
    /\ "LAT" \in DOMAIN env /\ ParsesAsF64(env["LAT"])
    /\ "LNG" \in DOMAIN env /\ ParsesAsF64(env["LNG"])

\* line 67 and fetch_sunrise_time (faulty variant: a failed lookup falls back to
\* the earliest instant instead of returning the error)
FetchSunriseFallback ==
    /\ pc = "sunrise"
    /\ IF ~LatLngOk
       THEN Ends("panic") /\ UNCHANGED <<sunrise_result, sunrise_utc, effects>>
       ELSE /\ effects' = Append(effects, "http")
            /\ \E outcome \in {"request_error", "decode_error", "parse_error", "ok"} :
                  /\ sunrise_result' = outcome
                  /\ pc' = "schedule"
                  /\ UNCHANGED status
                  /\ IF outcome = "ok"
                     THEN \E t \in SunriseInstants : sunrise_utc' = t
                     ELSE sunrise_utc' = [secs |-> NowSecs, nanos |-> 0, offset |-> 0]
    /\ UNCHANGED <<env, machine, local_offset, conn, wiz_lights, queries, now,
                   duration_to_sleep, sleeping, i, call, inflight, sent, log,
                   log_failed>>

FetchSunrise ==
    /\ pc = "sunrise"
    /\ IF ~LatLngOk
       THEN Ends("panic") /\ UNCHANGED <<sunrise_result, sunrise_utc, effects>>
       ELSE /\ effects' = Append(effects, "http")
            /\ \E outcome \in {"request_error", "decode_error", "parse_error", "ok"} :
                  /\ sunrise_result' = outcome
                  /\ IF outcome = "ok"
                     THEN /\ \E t \in SunriseInstants : sunrise_utc' = t
                          /\ pc' = "schedule"
                          /\ UNCHANGED status
                     ELSE Ends("exit1") /\ UNCHANGED sunrise_utc
    /\ UNCHANGED <<env, machine, local_offset, conn, wiz_lights, queries, now,
                   duration_to_sleep, sleeping, i, call, inflight, sent, log,
                   log_failed>>

\* lines 68-82 and 86-90: the target time, the wait and the branch, up to
\* the call of log_light_event
Schedule ==
    /\ pc = "schedule"
    /\ \E n \in NowNanos :
          LET sunrise_local == WithTimezone(sunrise_utc, local_offset)
              target_time == TargetTime(sunrise_local)
              local_now == [secs |-> NowSecs, nanos |-> n, offset |-> local_offset]
              d == DurationSince(target_time, local_now)
          IN  /\ now' = local_now
              /\ duration_to_sleep' = d
              /\ IF ShouldSleep(d)
                 THEN /\ call' = [severity |-> "Info",
                                  message |-> <<"sleeping", sunrise_local,
                                                NumSeconds(d), target_time>>,
                                  machine |-> "All"]
                      /\ pc' = "log_sleep"
                 ELSE /\ call' = [severity |-> "Info",
                                  message |-> <<"immediately", FormatYmdHms(sunrise_local)>>,
                                  machine |-> "All"]
                      /\ pc' = "log_now"
    /\ UNCHANGED <<env, machine, local_offset, status, conn, wiz_lights, queries,
                   sunrise_result, sunrise_utc, sleeping, i, inflight, sent, log,
                   log_failed, effects>>

\* log_light_event, lines 178-183: the INSERT is sent
LogIssue ==
    /\ pc \in LogSites
    /\ inflight = {}
    /\ inflight' = {"insert"}
    /\ effects' = Append(effects, "insert")
    /\ UNCHANGED <<env, machine, local_offset, pc, status, conn, wiz_lights, queries,
                   sunrise_result, sunrise_utc, now, duration_to_sleep, sleeping,
                   i, call, sent, log, log_failed>>

\* the INSERT returns (faulty variant: its error is dropped and main goes on)
LogReturnIgnoringError ==
    /\ pc \in LogSites
    /\ "insert" \in inflight
    /\ inflight' = inflight \ {"insert"}
    /\ call' = NoCall
    /\ pc' = AfterLog(pc)
    /\ \E ok \in BOOLEAN :
          IF ok /\ conn = "open"
          THEN /\ log' = Append(log, LogRow(call))
               /\ effects' = Append(effects, "row")
               /\ UNCHANGED log_failed
          ELSE log_failed' = TRUE /\ UNCHANGED <<log, effects>>
    /\ UNCHANGED <<env, machine, local_offset, status, conn, wiz_lights, queries,
                   sunrise_result, sunrise_utc, now, duration_to_sleep, sleeping,
                   i, sent>>

\* the INSERT returns; the ? of lines 83, 91, 103 and 112 returns its error
\* from main
LogReturn ==
    /\ pc \in LogSites
    /\ "insert" \in inflight
    /\ inflight' = inflight \ {"insert"}
    /\ call' = NoCall
    /\ \E ok \in BOOLEAN :
          IF ok /\ conn = "open"
          THEN /\ log' = Append(log, LogRow(call))
               /\ effects' = Append(effects, "row")
               /\ pc' = AfterLog(pc)
               /\ UNCHANGED <<status, log_failed>>
          ELSE /\ log_failed' = TRUE
               /\ Ends("exit1")
               /\ UNCHANGED <<log, effects>>
    /\ UNCHANGED <<env, machine, local_offset, conn, wiz_lights, queries,
                   sunrise_result, sunrise_utc, now, duration_to_sleep, sleeping,
                   i, sent>>

\* line 84 (faulty variant: the sleep is started and not awaited)
SleepStartNotAwaited ==
    /\ pc = "sleep"
    /\ sleeping' = [state |-> "pending", arg |-> AsU64(NumSeconds(duration_to_sleep))]
    /\ effects' = Append(effects, "sleep")
    /\ pc' = "loop"
    /\ UNCHANGED <<env, machine, local_offset, status, conn, wiz_lights, queries,
                   sunrise_result, sunrise_utc, now, duration_to_sleep,
                   i, call, inflight, sent, log, log_failed>>

\* line 84: the wait in seconds is cast to u64 and the sleep begins
SleepStart ==
    /\ pc = "sleep"
    /\ sleeping' = [state |-> "pending", arg |-> AsU64(NumSeconds(duration_to_sleep))]
    /\ effects' = Append(effects, "sleep")
    /\ pc' = "sleeping"
    /\ UNCHANGED <<env, machine, local_offset, status, conn, wiz_lights, queries,
                   sunrise_result, sunrise_utc, now, duration_to_sleep,
                   i, call, inflight, sent, log, log_failed>>

\* line 84: the sleep elapses
Wake ==
    /\ pc = "sleeping"
    /\ sleeping' = [sleeping EXCEPT !.state = "done"]
    /\ pc' = "loop"
    /\ UNCHANGED <<env, machine, local_offset, status, conn, wiz_lights, queries,
                   sunrise_result, sunrise_utc, now, duration_to_sleep,
                   i, call, inflight, sent, log, log_failed, effects>>

\* line 96: the for loop takes the next light, or main returns Ok (117)
LoopNext ==
    /\ pc = "loop"
    /\ IF i < Len(wiz_lights)
       THEN i' = i + 1 /\ pc' = "send" /\ UNCHANGED status
       ELSE Ends("exit0") /\ UNCHANGED i
    /\ UNCHANGED <<env, machine, local_offset, conn, wiz_lights, queries,
                   sunrise_result, sunrise_utc, now, duration_to_sleep, sleeping,
                   call, inflight, sent, log, log_failed, effects>>

\* line 97: send_udp_packet is called for the current light
SendIssue ==
    /\ pc = "send"
    /\ inflight = {}
    /\ inflight' = {"udp"}
    /\ effects' = Append(effects, "udp")
    /\ UNCHANGED <<env, machine, local_offset, pc, status, conn, wiz_lights, queries,
                   sunrise_result, sunrise_utc, now, duration_to_sleep, sleeping,
                   i, call, sent, log, log_failed>>

\* send_udp_packet returns (faulty variant: its error is returned from main with ?)
SendReturnPropagate ==
    /\ pc = "send"
    /\ "udp" \in inflight
    /\ inflight' = inflight \ {"udp"}
    /\ \E bind_ok \in BOOLEAN, send_ok \in BOOLEAN :
          LET light == wiz_lights[i]
              result == SendResult(light.host_id, bind_ok, send_ok)
          IN  /\ sent' = Append(sent, [light |-> i, addr |-> light.host_id,
                                       result |-> result])
              /\ IF result = "Ok"
                 THEN /\ call' = LogArgs(light, result)
                      /\ pc' = AfterSend(result)
                      /\ UNCHANGED status
                 ELSE Ends("exit1") /\ UNCHANGED call
    /\ UNCHANGED <<env, machine, local_offset, conn, wiz_lights, queries,
                   sunrise_result, sunrise_utc, now, duration_to_sleep, sleeping,
                   i, log, log_failed, effects>>

\* send_udp_packet returns (faulty variant: a failed send is tried again)
SendReturnRetry ==
    /\ pc = "send"
    /\ "udp" \in inflight
    /\ inflight' = inflight \ {"udp"}
    /\ \E bind_ok \in BOOLEAN, send_ok \in BOOLEAN :
          LET light == wiz_lights[i]
              result == SendResult(light.host_id, bind_ok, send_ok)
          IN  /\ sent' = Append(sent, [light |-> i, addr |-> light.host_id,
                                       result |-> result])
              /\ IF result = "Ok"
                 THEN call' = LogArgs(light, result) /\ pc' = AfterSend(result)
                 ELSE UNCHANGED <<call, pc>>
    /\ UNCHANGED <<env, machine, local_offset, status, conn, wiz_lights, queries,
                   sunrise_result, sunrise_utc, now, duration_to_sleep, sleeping,
                   i, log, log_failed, effects>>

\* send_udp_packet returns and the match of lines 97-114 picks its arm, up
\* to the call of log_light_event
SendReturn ==
    /\ pc = "send"
    /\ "udp" \in inflight
    /\ inflight' = inflight \ {"udp"}
    /\ \E bind_ok \in BOOLEAN, send_ok \in BOOLEAN :
          LET light == wiz_lights[i]
              result == SendResult(light.host_id, bind_ok, send_ok)
          IN  /\ sent' = Append(sent, [light |-> i, addr |-> light.host_id,
                                       result |-> result])
              /\ call' = LogArgs(light, result)
              /\ pc' = AfterSend(result)
    /\ UNCHANGED <<env, machine, local_offset, status, conn, wiz_lights, queries,
                   sunrise_result, sunrise_utc, now, duration_to_sleep, sleeping,
                   i, log, log_failed, effects>>

Next ==
    \/ LoadDbEnv
    \/ Connect
    \/ ConnectionError
    \/ FetchWizLights
    \/ FetchSunrise
    \/ Schedule
    \/ LogIssue
    \/ LogReturn
    \/ SleepStart
    \/ Wake
    \/ LoopNext
    \/ SendIssue
    \/ SendReturn

Spec == Init /\ [][Next]_vars

(***************************************************************************)
(* Notions the properties below are stated in.                             *)
(***************************************************************************)
\* the number of send_udp_packet calls issued among the first p effects
AttemptsUpTo(p) == Cardinality({q \in 1..p : effects[q] = "udp"})

\* the rows the log table took after the k-th send attempt was issued and
\* before the next one was
RowsOfAttempt(k) ==
    Cardinality({p \in 1..Len(effects) : effects[p] = "row" /\ AttemptsUpTo(p) = k})

\* the for loop has finished its step for the k-th light
MovedPast(k) == i > k \/ (i = k /\ pc = "loop")

IsControllerRow(r) == r.message[1] \in {"turned off", "failed to turn off"}

IsRunWideRow(r) == r.message[1] \in {"sleeping", "immediately"}

\* the rows of the controller stage, in the order they were appended
ControllerLog == SelectSeq(log, IsControllerRow)

\* main has taken its reading of the clock and chosen its branch
Scheduled == pc \notin {"env", "connect", "lights", "sunrise", "schedule"} /\ now # NoTime

\* (sunrise - 30 minutes - now) in whole seconds, rounded down, and whether
\* a fraction of a second was dropped by the rounding
WaitFloor ==
    sunrise_utc.secs - SUNRISE_LEAD_MINUTES * 60 - now.secs
      - (IF sunrise_utc.nanos < now.nanos THEN 1 ELSE 0)

WaitHasFraction == sunrise_utc.nanos # now.nanos

\* the sunrise instant is strictly more than 30 minutes after now
SunriseBeyondLead == WaitFloor > 0 \/ (WaitFloor = 0 /\ WaitHasFraction)

(***************************************************************************)
(* C1                                                                      *)
(***************************************************************************)
\* C1 (as claimed): every send attempt that has returned has at most one log
\* row, and exactly one once the loop has moved past its device or the run
\* has ended, also when the insert of that row fails.
C1_ExactlyOneRowAlways ==
    \A k \in 1..Len(sent) :
        /\ RowsOfAttempt(k) <= 1
        /\ (MovedPast(k) \/ pc = "done") => RowsOfAttempt(k) = 1

\* C1 (amended): every send attempt that has returned has at most one log
\* row; once the loop has moved past its device or the run has ended it has
\* exactly one, except the last attempt of a run that the failed insert of
\* that very row has aborted with exit 1, which has none.
C1_OneRowUnlessInsertFailed ==
    \A k \in 1..Len(sent) :
        /\ RowsOfAttempt(k) <= 1
        /\ (MovedPast(k) \/ pc = "done") =>
              \/ RowsOfAttempt(k) = 1
              \/ /\ RowsOfAttempt(k) = 0
                 /\ log_failed /\ status = "exit1" /\ pc = "done"
                 /\ k = Len(sent)

\* a run of two attempts: the first has its row, the second lost its row
\* to a failed insert
C1_Witness ==
    /\ pc = "done" /\ log_failed
    /\ Len(sent) = 2
    /\ RowsOfAttempt(1) = 1 /\ RowsOfAttempt(2) = 0

(***************************************************************************)
(* C2                                                                      *)
(***************************************************************************)
\* C2: a run that completes the controller stage over a directory of N rows
\* has appended exactly N controller rows, the k-th with the name of the
\* k-th device and severity Info iff its send returned Ok, Error iff Err.
C2_OneRowPerDeviceInOrder ==
    status = "exit0" =>
        /\ Len(ControllerLog) = Len(machine)
        /\ Len(sent) = Len(machine)
        /\ \A k \in 1..Len(machine) :
              /\ sent[k].light = k
              /\ ControllerLog[k].machine = machine[k].name
              /\ ControllerLog[k].event_type = "Morning"
              /\ ControllerLog[k].severity \in {"Info", "Error"}
              /\ ControllerLog[k].severity = "Info" <=> sent[k].result = "Ok"
              /\ ControllerLog[k].severity = "Error" <=> sent[k].result # "Ok"

\* a completed run over two devices, one send Ok and one Err
C2_Witness ==
    /\ status = "exit0"
    /\ Len(machine) = 2
    /\ sent[1].result # "Ok" /\ sent[2].result = "Ok"
    /\ ControllerLog[1].severity = "Error" /\ ControllerLog[2].severity = "Info"

(***************************************************************************)
(* C3                                                                      *)
(***************************************************************************)
\* C3 (as claimed): once the controller loop has taken a device, neither a
\* failed send nor a failed insert of a device's row keeps the loop from
\* going through every device and the process from exiting with code 0.
C3_PerDeviceFailuresExitZero ==
    (pc = "done" /\ i >= 1) =>
        /\ status = "exit0"
        /\ Len(sent) = Len(wiz_lights)

\* C3 (amended): failed sends do not by themselves cause a nonzero exit: a
\* run whose loop has taken a device ends with code 0, after an attempt for
\* every device, iff no log insert failed; a failed insert of a device's row
\* ends it at once with exit 1.
C3_OnlyInsertFailuresAbort ==
    (pc = "done" /\ i >= 1) =>
        /\ status \in {"exit0", "exit1"}
        /\ status = "exit0" <=> ~log_failed
        /\ ~log_failed => Len(sent) = Len(wiz_lights) /\ Len(ControllerLog) = Len(sent)
        /\ log_failed => Len(sent) = i /\ Len(ControllerLog) = i - 1

\* a run that exits 0 although a send failed
C3_Witness ==
    /\ status = "exit0"
    /\ Len(sent) = 2
    /\ sent[1].result = "Err:bind" /\ sent[2].result = "Err:send"

(***************************************************************************)
(* C4                                                                      *)
(***************************************************************************)
\* C4: with a required variable absent, or LAT or LNG not a number, no
\* external effect (connection, query, HTTP request, log row, datagram)
\* ever happens in the run.
C4_ConfigFailsFast == (env # FullEnv) => effects = <<>>

(***************************************************************************)
(* C5                                                                      *)
(***************************************************************************)
\* C5: a failed sunrise lookup ends the run with a nonzero exit, no send
\* attempted and no row in the log table.
C5_SunriseFailureNoEffects ==
    sunrise_result \in {"request_error", "decode_error", "parse_error"} =>
        /\ pc = "done" /\ status = "exit1"
        /\ sent = <<>> /\ log = <<>>
        /\ inflight = {}
        /\ \A p \in 1..Len(effects) : effects[p] \notin {"udp", "insert", "row", "sleep"}

\* the sunrise string was no timestamp, with devices in the directory
C5_Witness ==
    /\ sunrise_result = "parse_error"
    /\ Len(wiz_lights) = 2
    /\ pc = "done"

(***************************************************************************)
(* C6                                                                      *)
(***************************************************************************)
\* C6: a failed log insert ends the run where it occurs: the failed insert
\* is the last external effect of the run (no later send, row or sleep),
\* nothing is left in flight, a sleep not yet begun never begins, and the
\* process has exited nonzero.
C6_FailedInsertAborts ==
    log_failed =>
        /\ pc = "done" /\ status = "exit1"
        /\ inflight = {}
        /\ Len(effects) >= 1 /\ effects[Len(effects)] = "insert"
        /\ sleeping.state # "pending"
        /\ log = <<>> => (sleeping.state = "none" /\ sent = <<>>)
        /\ Len(ControllerLog) = Len(sent) - (IF sent = <<>> THEN 0 ELSE 1)

\* the insert of the second device's row failed after two rows went in
C6_Witness ==
    /\ log_failed
    /\ Len(sent) = 2 /\ Len(log) = 2
    /\ Len(wiz_lights) = 2

(***************************************************************************)
(* C7                                                                      *)
(***************************************************************************)
\* C7 (as claimed): whenever the sunrise instant is strictly more than 30
\* minutes after now, be it by less than a second, the scheduler takes the
\* waiting branch.
C7_WaitsWheneverBeyondLead ==
    (pc \in {"log_sleep", "log_now"} /\ SunriseBeyondLead) => pc = "log_sleep"

\* C7 (amended): whenever the sunrise instant is at least 30 minutes and one
\* whole second after now, the scheduler takes the waiting branch and sleeps
\* for (sunrise - 30 minutes - now) in whole seconds, the fraction dropped,
\* which is positive; a sunrise instant that exceeds now + 30 minutes by
\* less than one second takes the act-now branch.
C7_WaitsFromOneSecondBeyondLead ==
    /\ (pc \in {"log_sleep", "log_now"} /\ WaitFloor >= 1) =>
          /\ pc = "log_sleep"
          /\ call.message[3] = WaitFloor
          /\ NumSeconds(duration_to_sleep) = WaitFloor
    /\ (pc \in {"log_sleep", "log_now"} /\ WaitFloor = 0) => pc = "log_now"
    /\ (Scheduled /\ WaitFloor >= 1 /\ pc \in {"sleep", "sleeping", "loop", "send", "log_light"}) =>
          Len(log) >= 1 /\ log[1].message[1] = "sleeping"
    /\ (Scheduled /\ WaitFloor >= 1 /\ sleeping.state # "none") =>
          sleeping.arg = [wraps |-> 0, low |-> WaitFloor]
    /\ (pc \in {"sleeping", "loop", "send", "log_light"}
          /\ Len(log) >= 1 /\ log[1].message[1] = "sleeping") =>
          sleeping.state # "none"

\* a sleep whose length dropped a fraction of a second
C7_Witness ==
    /\ sleeping.state = "pending"
    /\ WaitHasFraction
    /\ WaitFloor = 1
    /\ sleeping.arg.low = 1

(***************************************************************************)
(* C8                                                                      *)
(***************************************************************************)
\* C8: the cast to u64 is only ever applied to a wait in seconds greater
\* than 0, so no sleep has a negative or wrapped-around length; and with
\* the sunrise instant within 30 minutes of now or before now the scheduler
\* takes the act-now branch: it logs the "immediately" Info row for "All"
\* and goes on to the controller loop with no sleep.
C8_NoNegativeSleep ==
    /\ sleeping.arg.wraps = 0
    /\ sleeping.state # "none" =>
          /\ NumSeconds(duration_to_sleep) > 0
          /\ sleeping.arg.low = NumSeconds(duration_to_sleep)
    /\ (Scheduled /\ ~SunriseBeyondLead) =>
          /\ sleeping.state = "none"
          /\ pc \notin {"log_sleep", "sleep", "sleeping"}
          /\ pc = "log_now" =>
                /\ call.severity = "Info" /\ call.machine = "All"
                /\ call.message[1] = "immediately"
          /\ pc \in {"loop", "send", "log_light"} \/ log # <<>> =>
                /\ Len(log) >= 1
                /\ log[1].severity = "Info" /\ log[1].machine = "All"
                /\ log[1].event_type = "Morning"
                /\ log[1].message[1] = "immediately"

\* the target time lies more than a second in the past and the loop has
\* been entered with the run-wide row logged and no sleep
C8_Witness ==
    /\ Scheduled
    /\ duration_to_sleep.secs < -1
    /\ pc = "send"
    /\ sleeping.state = "none"
    /\ Len(log) = 1 /\ log[1].message[1] = "immediately"

(***************************************************************************)
(* C9                                                                      *)
(***************************************************************************)
\* C9: the send attempts are the devices of the directory in query order,
\* each at most once, whatever the earlier attempts returned; when no
\* insert fails the run ends with exactly one attempt per device; and the
\* device list is read by one query and is the same at every step.
C9_OneAttemptPerDeviceInOrder ==
    /\ queries <= 1
    /\ pc \notin {"env", "connect", "lights"} /\ wiz_lights # <<>> =>
          wiz_lights = BuildWizLights(machine, env["NETWORK_ID"])
    /\ Len(sent) <= Len(wiz_lights)
    /\ \A k \in 1..Len(sent) :
          /\ sent[k].light = k
          /\ sent[k].addr = wiz_lights[k].host_id
    /\ AttemptsUpTo(Len(effects)) = Len(sent) + (IF "udp" \in inflight THEN 1 ELSE 0)
    /\ (pc = "done" /\ Scheduled /\ ~log_failed) =>
          /\ status = "exit0"
          /\ Len(sent) = Len(machine)

\* both devices were attempted although the first send failed
C9_Witness ==
    /\ status = "exit0"
    /\ Len(sent) = 2
    /\ sent[1].result = "Err:parse"
    /\ sent[2].result = "Ok"

(***************************************************************************)
(* C10                                                                     *)
(***************************************************************************)
\* C10: exactly one run-wide row (Info, All, Morning) is in the log table
\* before the sleep begins and before any send; no send is issued while the
\* sleep is pending; a send is issued only when every earlier attempt has
\* its row; at most one send or insert is in flight.
C10_StagesInOrder ==
    /\ Cardinality(inflight) <= 1
    /\ Len(SelectSeq(log, IsRunWideRow)) <= 1
    /\ \A p \in 1..Len(effects) :
          effects[p] \in {"sleep", "udp"} =>
              /\ Cardinality({q \in 1..(p - 1) : effects[q] = "row"}) >= 1
              /\ Len(log) >= 1
              /\ IsRunWideRow(log[1])
              /\ log[1].severity = "Info" /\ log[1].machine = "All"
              /\ log[1].event_type = "Morning"
              /\ Len(SelectSeq(log, IsRunWideRow)) = 1
    /\ sleeping.state = "pending" =>
          /\ inflight = {}
          /\ sent = <<>>
          /\ \A p \in 1..Len(effects) : effects[p] # "udp"
          /\ pc = "sleeping"
    /\ "udp" \in inflight =>
          /\ i = Len(sent) + 1
          /\ Len(ControllerLog) = Len(sent)
          /\ \A k \in 1..Len(sent) : RowsOfAttempt(k) = 1

\* the second device's send is in flight after the sleep and the first
\* device's row
C10_Witness ==
    /\ "udp" \in inflight
    /\ sleeping.state = "done"
    /\ Len(sent) = 1
    /\ Len(log) = 2

=============================================================================
